---- MODULE Spec2Model ----
(***************************************************************************)
(* A model of generate_life_calendar.py: the command line is parsed, the   *)
(* birth date is parsed, the grid is anchored on a Monday and drawn one    *)
(* row of 52 week boxes per year, each box filled according to the week    *)
(* classifier of draw_row, and the finished PDF bytes are written out.     *)
(*                                                                         *)
(* A datetime is modelled by its proleptic Gregorian ordinal (the value of *)
(* datetime.toordinal()): every datetime of the program is at midnight and *)
(* every timedelta is a whole number of days.  A text is a sequence of     *)
(* one-character strings.  A colour is a triple of hundredths.             *)
(***************************************************************************)
EXTENDS Integers, Sequences, FiniteSets, TLC

VARIABLES
    args,        \* the namespace returned by parser.parse_args()
    today,       \* the wall clock: datetime.date.today()
    pc,          \* the position of main
    exc,         \* the exception in flight or last handled ("none" if none)
    exc_from,    \* the function whose statement raised exc
    start_date,  \* main: start_date, the parsed birth date
    doc_name,    \* main: doc_name
    years,       \* main: years
    date,        \* gen_calendar: date, the grid anchor
    grid_start,  \* draw_grid: start_date
    row_date,    \* draw_grid: date
    row,         \* draw_grid: i
    cell_date,   \* draw_row: date
    col,         \* draw_row: i
    canvas,      \* what has been drawn on the cairo surface
    last_cell,   \* the last box drawn by draw_row
    stdout,      \* what the process wrote to standard output
    files        \* the files the process wrote

vars == <<args, today, pc, exc, exc_from, start_date, doc_name,
          years, date, grid_start, row_date, row, cell_date, col, canvas,
          last_cell, stdout, files>>

(***************************************************************************)
(* Program constants                                                       *)
(***************************************************************************)
DOC_NAME == <<"l", "i", "f", "e", "_", "c", "a", "l", "e", "n", "d", "a", "r",
             ".", "p", "d", "f">>
MAX_TITLE_SIZE == 30
DEFAULT_TITLE == <<"C", "A", "L", "E", "N", "D", "A", "R", "I", "O", " ",
                  "D", "E", "L", "L", "A", " ", "V", "I", "T", "A">>
MIN_YEARS == 1
MAX_YEARS == 88
NUM_COLUMNS == 52
WHITE == <<100, 100, 100>>
LIVED_COLOUR == <<88, 88, 88>>
BIRTHDAY_COLOUR == <<55, 55, 55>>
NEWYEAR_COLOUR == <<80, 80, 80>>
ROW_WEEKS == 52
DEFAULT_YEARS == 80
MAXYEAR == 9999

Max(a, b) == IF a >= b THEN a ELSE b
Min(a, b) == IF a <= b THEN a ELSE b

(***************************************************************************)
(* The datetime module, as far as the program uses it                      *)
(***************************************************************************)
DAYS_IN_MONTH == <<31, 28, 31, 30, 31, 30, 31, 31, 30, 31, 30, 31>>
DAYS_BEFORE_MONTH == <<0, 31, 59, 90, 120, 151, 181, 212, 243, 273, 304, 334>>

is_leap(y) == y % 4 = 0 /\ (y % 100 /= 0 \/ y % 400 = 0)

days_in_month(y, m) == IF m = 2 /\ is_leap(y) THEN 29 ELSE DAYS_IN_MONTH[m]

days_before_year(y) ==
    LET p == y - 1 IN p * 365 + (p \div 4) - (p \div 100) + (p \div 400)

days_before_month(y, m) ==
    DAYS_BEFORE_MONTH[m] + (IF m > 2 /\ is_leap(y) THEN 1 ELSE 0)

\* datetime(y, m, d).toordinal()
ymd2ord(y, m, d) == days_before_year(y) + days_before_month(y, m) + d

\* the year, month and day attributes of the datetime of ordinal n
ord2ymd(n) ==
    LET n0   == n - 1
        n400 == n0 \div 146097
        r400 == n0 % 146097
        n100 == r400 \div 36524
        r100 == r400 % 36524
        n4   == r100 \div 1461
        r4   == r100 % 1461
        n1   == r4 \div 365
        r1   == r4 % 365
        y    == n400 * 400 + 1 + n100 * 100 + n4 * 4 + n1
    IN  IF n1 = 4 \/ n100 = 4
        THEN [year |-> y - 1, month |-> 12, day |-> 31]
        ELSE LET leap == n1 = 3 /\ (n4 /= 24 \/ n100 = 3)
                 m0   == (r1 + 50) \div 32
                 p0   == DAYS_BEFORE_MONTH[m0]
                            + (IF m0 > 2 /\ leap THEN 1 ELSE 0)
                 mon  == IF p0 > r1 THEN m0 - 1 ELSE m0
                 prec == IF p0 > r1
                         THEN p0 - (DAYS_IN_MONTH[mon]
                                     + (IF mon = 2 /\ leap THEN 1 ELSE 0))
                         ELSE p0
             IN  [year |-> y, month |-> mon, day |-> r1 - prec + 1]

\* date.weekday(): Monday is 0
weekday(n) == (n + 6) % 7

\* datetime.timedelta(weeks=w), datetime.timedelta(days=d), in days
timedelta_weeks(w) == 7 * w
timedelta_days(d) == d

\* datetime(y, m, d) raises ValueError unless this holds
datetime_ok(y, m, d) ==
    /\ y >= 1 /\ y <= MAXYEAR
    /\ m >= 1 /\ m <= 12
    /\ d >= 1 /\ d <= days_in_month(y, m)

\* datetime + timedelta raises OverflowError unless this holds of the sum
ordinal_ok(n) == n >= 1 /\ n <= ymd2ord(MAXYEAR, 12, 31)

(***************************************************************************)
(* parse_date                                                              *)
(***************************************************************************)
Digits == {"0", "1", "2", "3", "4", "5", "6", "7", "8", "9"}

DigitVal(c) ==
    CASE c = "0" -> 0 [] c = "1" -> 1 [] c = "2" -> 2 [] c = "3" -> 3
      [] c = "4" -> 4 [] c = "5" -> 5 [] c = "6" -> 6 [] c = "7" -> 7
      [] c = "8" -> 8 [] c = "9" -> 9 [] OTHER -> 0

Whitespace == {" "}

\* str.strip()
strip(s) ==
    LET keep == {i \in 1..Len(s) : s[i] \notin Whitespace}
    IN  IF keep = {} THEN <<>>
        ELSE LET lo == CHOOSE i \in keep : \A j \in keep : i <= j
                 hi == CHOOSE i \in keep : \A j \in keep : i >= j
             IN  SubSeq(s, lo, hi)

\* the directive %d at position i, taking n characters:
\* 3[0-1] | [1-2]\d | 0[1-9] | [1-9] | " "[1-9]
match_d(s, i, n) ==
    /\ i + n - 1 <= Len(s)
    /\ IF n = 2
       THEN \/ s[i] = "3" /\ s[i + 1] \in {"0", "1"}
            \/ s[i] \in {"1", "2"} /\ s[i + 1] \in Digits
            \/ s[i] \in {"0", " "} /\ s[i + 1] \in Digits \ {"0"}
       ELSE s[i] \in Digits \ {"0"}

\* the directive %m at position i, taking n characters: 1[0-2] | 0[1-9] | [1-9]
match_m(s, i, n) ==
    /\ i + n - 1 <= Len(s)
    /\ IF n = 2
       THEN \/ s[i] = "1" /\ s[i + 1] \in {"0", "1", "2"}
            \/ s[i] = "0" /\ s[i + 1] \in Digits \ {"0"}
       ELSE s[i] \in Digits \ {"0"}

\* the directive %Y at position i: \d\d\d\d
match_Y(s, i) ==
    /\ i + 3 <= Len(s)
    /\ \A k \in i..(i + 3) : s[k] \in Digits

\* int() of the n characters at position i
int_at(s, i, n) ==
    IF n = 1 THEN DigitVal(s[i])
    ELSE 10 * DigitVal(s[i]) + DigitVal(s[i + 1])

int_Y(s, i) ==
    1000 * DigitVal(s[i]) + 100 * DigitVal(s[i + 1])
        + 10 * DigitVal(s[i + 2]) + DigitVal(s[i + 3])

\* datetime.datetime.strptime(s, "%d<sep>%m<sep>%Y"): the format's regular
\* expression is matched at the start of s, the whole of s must be consumed,
\* and the fields must make a date.  [ok |-> FALSE] stands for ValueError.
strptime(s, sep) ==
    LET fits == {w \in {1, 2} \X {1, 2} :
                    /\ match_d(s, 1, w[1])
                    /\ 1 + w[1] <= Len(s) /\ s[1 + w[1]] = sep
                    /\ match_m(s, 2 + w[1], w[2])
                    /\ 2 + w[1] + w[2] <= Len(s) /\ s[2 + w[1] + w[2]] = sep
                    /\ match_Y(s, 3 + w[1] + w[2])}
    IN  IF fits = {} THEN [ok |-> FALSE, value |-> 0]
        ELSE LET w   == CHOOSE x \in fits : TRUE
                 end == 6 + w[1] + w[2]
                 d   == int_at(s, 1, w[1])
                 m   == int_at(s, 2 + w[1], w[2])
                 y   == int_Y(s, 3 + w[1] + w[2])
             IN  IF Len(s) /= end \/ ~datetime_ok(y, m, d)
                 THEN [ok |-> FALSE, value |-> 0]
                 ELSE [ok |-> TRUE, value |-> ymd2ord(y, m, d)]

\* formats = ['%d/%m/%Y', '%d-%m-%Y']
formats == <<"/", "-">>

\* parse_date(date): the first format that parses the text as given; the
\* stripped text is computed and not used.  [ok |-> FALSE] stands for the
\* ValueError of the last line.
parse_date(text) ==
    LET stripped == strip(text)
        tries    == [k \in 1..Len(formats) |-> strptime(text, formats[k])]
        good     == {k \in 1..Len(formats) : tries[k].ok}
    IN  IF good = {} THEN [ok |-> FALSE, value |-> 0]
        ELSE tries[CHOOSE k \in good : \A j \in good : k <= j]

(***************************************************************************)
(* main: the output name                                                   *)
(***************************************************************************)
\* str.rfind(c), counted from 1; 0 when c does not occur
rfind(s, c) ==
    LET hits == {i \in 1..Len(s) : s[i] = c}
    IN  IF hits = {} THEN 0 ELSE CHOOSE i \in hits : \A j \in hits : i >= j

\* os.path.splitext(p)[0]: p up to its last dot, when that dot comes after
\* the last separator and after a character of the base name that is no dot
splitext_root(p) ==
    LET sepIndex == rfind(p, "/")
        dotIndex == rfind(p, ".")
    IN  IF dotIndex > sepIndex
           /\ \E k \in (sepIndex + 1)..(dotIndex - 1) : p[k] /= "."
        THEN SubSeq(p, 1, dotIndex - 1)
        ELSE p

\* '%s.pdf' % root
pdf_name(root) == root \o <<".", "p", "d", "f">>

\* the clamp without its lower end: min(88, requested)
clamp_years_no_floor(requested) == Min(MAX_YEARS, requested)

\* max(1, min(88, requested))
clamp_years(requested) == Max(MIN_YEARS, Min(MAX_YEARS, requested))

\* the title check off by one: len(title) >= MAX_TITLE_SIZE
title_too_long_from_30(title) == Len(title) >= MAX_TITLE_SIZE

\* len(title) > MAX_TITLE_SIZE
title_too_long(title) == Len(title) > MAX_TITLE_SIZE

\* the locale names locale.setlocale accepts on the platform
Installed == {"it_IT"}

(***************************************************************************)
(* The week classifier                                                     *)
(***************************************************************************)
\* is_current_week without the anniversary of the following year
is_current_week_this_year(now, month, day) ==
    LET y == ord2ymd(now).year
        end == now + timedelta_weeks(1)
    IN  IF ~ordinal_ok(end)
        THEN [raised |-> "OverflowError", value |-> FALSE]
        ELSE IF ~datetime_ok(y, month, day)
        THEN [raised |-> "ValueError", value |-> FALSE]
        ELSE LET date1 == ymd2ord(y, month, day)
             IN  [raised |-> "none", value |-> now <= date1 /\ date1 < end]

\* is_current_week(now, month, day).  raised is the exception of the two
\* datetime constructors or of the addition, "none" when the call returns.
is_current_week(now, month, day) ==
    LET y == ord2ymd(now).year
        end == now + timedelta_weeks(1)
    IN  IF ~ordinal_ok(end)
        THEN [raised |-> "OverflowError", value |-> FALSE]
        ELSE IF ~datetime_ok(y, month, day) \/ ~datetime_ok(y + 1, month, day)
        THEN [raised |-> "ValueError", value |-> FALSE]
        ELSE LET date1 == ymd2ord(y, month, day)
                 date2 == ymd2ord(y + 1, month, day)
             IN  [raised |-> "none",
                  value  |-> \/ (now <= date1 /\ date1 < end)
                             \/ (now <= date2 /\ date2 < end)]

\* today - datetime.timedelta(days=today.weekday())
last_monday(day) == day - timedelta_days(weekday(day))

\* is_week_in_past(date), with the wall clock reading `now`
is_week_in_past(d, now) == d < last_monday(now)

\* The if/elif chain of draw_row for the box of date d: the fill colour, or
\* the exception raised while choosing it.
box_fill(d, start, fill_lived, now) ==
    IF fill_lived /\ is_week_in_past(d, now)
    THEN [raised |-> "none", fill |-> LIVED_COLOUR]
    ELSE LET sd == ord2ymd(start)
             b  == is_current_week(d, sd.month, sd.day)
         IN  IF b.raised /= "none" THEN [raised |-> b.raised, fill |-> WHITE]
             ELSE IF b.value THEN [raised |-> "none", fill |-> BIRTHDAY_COLOUR]
             ELSE LET n == is_current_week(d, 1, 1)
                  IN  IF n.raised /= "none"
                      THEN [raised |-> n.raised, fill |-> WHITE]
                      ELSE IF n.value
                      THEN [raised |-> "none", fill |-> NEWYEAR_COLOUR]
                      ELSE [raised |-> "none", fill |-> WHITE]

\* date - datetime.timedelta(days=1), the step of the normalisation loop
previous_day(d) == d - timedelta_days(1)

\* date + datetime.timedelta(weeks=1), the step of draw_row
next_week(d) == d + timedelta_weeks(1)

\* the row step as a year of 365 days: date + datetime.timedelta(days=365)
next_row_365(d) == d + timedelta_days(365)

\* date + datetime.timedelta(weeks=52), the step of draw_grid
next_row(d) == d + timedelta_weeks(ROW_WEEKS)

(***************************************************************************)
(* The state machine                                                       *)
(***************************************************************************)
NoCell == [row |-> -1, col |-> -1, date |-> 0, fill |-> WHITE]

BlankCanvas ==
    [created |-> FALSE, title |-> FALSE, key |-> 0, headers |-> 0,
     labels |-> 0, boxes |-> 0, rows |-> 0, row_boxes |-> 0,
     row_birthdays |-> 0, finished |-> FALSE]

\* `except Exception as e: print("Error: %s" % e); return` of main
MainExcept(e, f) ==
    /\ exc' = e
    /\ exc_from' = f
    /\ stdout' = Append(stdout, "error_line")
    /\ pc' = "returned"

\* line 241: locale.setlocale and i18n.set, outside every try block
SetLocale ==
    /\ pc = "main"
    /\ \/ /\ args.locale \in Installed
          /\ pc' = "parse"
          /\ UNCHANGED <<exc, exc_from>>
       \/ /\ args.locale \notin Installed
          /\ exc' = "locale.Error"
          /\ exc_from' = "setlocale"
          /\ pc' = "crashed"
    /\ UNCHANGED <<args, today, start_date, doc_name, years, date, grid_start,
                   row_date, row, cell_date, col, canvas, last_cell, stdout,
                   files>>

\* lines 244-248: start_date = parse_date(args.date), guarded
ParseDate ==
    /\ pc = "parse"
    /\ LET r == parse_date(args.date)
       IN  \/ /\ r.ok
              /\ start_date' = r.value
              /\ pc' = "resolve"
              /\ UNCHANGED <<exc, exc_from, stdout>>
           \/ /\ ~r.ok
              /\ MainExcept("ValueError", "parse_date")
              /\ UNCHANGED start_date
    /\ UNCHANGED <<args, today, doc_name, years, date, grid_start, row_date,
                   row, cell_date, col, canvas, last_cell, files>>

\* lines 250-255: doc_name and years
ResolveArgs ==
    /\ pc = "resolve"
    /\ doc_name' = IF args.stdout THEN <<>>
                   ELSE pdf_name(splitext_root(args.filename))
    /\ years' = clamp_years(args.years)
    /\ pc' = "gen"
    /\ UNCHANGED <<args, today, exc, exc_from, start_date, date, grid_start,
                   row_date, row, cell_date, col, canvas, last_cell, stdout,
                   files>>

\* lines 179-201: the title check, the surface, the background, the title
GenCalendarBegin ==
    /\ pc = "gen"
    /\ \/ /\ title_too_long(args.title)
          /\ MainExcept("ValueError", "gen_calendar")
          /\ UNCHANGED <<canvas, date>>
       \/ /\ ~title_too_long(args.title)
          /\ canvas' = [canvas EXCEPT !.created = TRUE, !.title = TRUE]
          /\ date' = start_date
          /\ pc' = "normalize"
          /\ UNCHANGED <<exc, exc_from, stdout>>
    /\ UNCHANGED <<args, today, start_date, doc_name, years, grid_start,
                   row_date, row, cell_date, col, last_cell, files>>

\* lines 202-203: one turn of `while date.weekday() != 0`
NormalizeStep ==
    /\ pc = "normalize"
    /\ weekday(date) /= 0
    /\ date' = previous_day(date)
    /\ UNCHANGED <<args, today, pc, exc, exc_from, start_date, doc_name, years,
                   grid_start, row_date, row, cell_date, col, canvas,
                   last_cell, stdout, files>>

\* lines 206, 129-158: the loop ends; draw_grid draws the key and the
\* column numbers, and keeps the date it is given as its start_date
DrawGridBegin ==
    /\ pc = "normalize"
    /\ weekday(date) = 0
    /\ grid_start' = date
    /\ row_date' = date
    /\ row' = 0
    /\ canvas' = [canvas EXCEPT !.key = 3, !.headers = NUM_COLUMNS]
    /\ pc' = "grid"
    /\ UNCHANGED <<args, today, exc, exc_from, start_date, doc_name, years,
                   date, cell_date, col, last_cell, stdout, files>>

\* lines 160-172, 98: a turn of `for i in range(years)` up to the call of
\* draw_row: the row's date label is drawn
DrawRowBegin ==
    /\ pc = "grid"
    /\ row < years
    /\ canvas' = [canvas EXCEPT !.labels = @ + 1, !.row_boxes = 0,
                                !.row_birthdays = 0]
    /\ cell_date' = row_date
    /\ col' = 0
    /\ pc' = "row"
    /\ UNCHANGED <<args, today, exc, exc_from, start_date, doc_name, years,
                   date, grid_start, row_date, row, last_cell, stdout, files>>

\* lines 100-112: a turn of `for i in range(NUM_COLUMNS)`
DrawCell ==
    /\ pc = "row"
    /\ col < NUM_COLUMNS
    /\ LET b == box_fill(cell_date, grid_start, args.fill_lived, today)
       IN  \/ /\ b.raised /= "none"
              /\ MainExcept(b.raised, "is_current_week")
              /\ UNCHANGED <<canvas, last_cell, cell_date, col>>
           \/ /\ b.raised = "none"
              /\ canvas' = [canvas EXCEPT
                              !.boxes = @ + 1,
                              !.row_boxes = @ + 1,
                              !.row_birthdays =
                                  IF b.fill = BIRTHDAY_COLOUR THEN @ + 1 ELSE @]
              /\ last_cell' = [row |-> row, col |-> col, date |-> cell_date,
                               fill |-> b.fill]
              /\ IF ordinal_ok(next_week(cell_date))
                 THEN /\ cell_date' = next_week(cell_date)
                      /\ col' = col + 1
                      /\ UNCHANGED <<pc, exc, exc_from, stdout>>
                 ELSE /\ MainExcept("OverflowError", "draw_row")
                      /\ UNCHANGED <<cell_date, col>>
    /\ UNCHANGED <<args, today, start_date, doc_name, years, date, grid_start,
                   row_date, row, files>>

\* lines 175-176: draw_row has returned; the next row starts 52 weeks later
DrawRowEnd ==
    /\ pc = "row"
    /\ col = NUM_COLUMNS
    /\ canvas' = [canvas EXCEPT !.rows = @ + 1]
    /\ IF ordinal_ok(next_row(row_date))
       THEN /\ row_date' = next_row(row_date)
            /\ row' = row + 1
            /\ pc' = "grid"
            /\ UNCHANGED <<exc, exc_from, stdout>>
       ELSE /\ MainExcept("OverflowError", "draw_grid")
            /\ UNCHANGED <<row_date, row>>
    /\ UNCHANGED <<args, today, start_date, doc_name, years, date, grid_start,
                   cell_date, col, last_cell, files>>

\* lines 207-209: the page is shown, the surface finished, and the bytes of
\* the document written to standard output, whatever filename was passed
Finish ==
    /\ pc = "grid"
    /\ row >= years
    /\ canvas' = [canvas EXCEPT !.finished = TRUE]
    /\ stdout' = Append(stdout, "pdf_bytes")
    /\ pc' = "returned"
    /\ UNCHANGED <<args, today, exc, exc_from, start_date, doc_name, years,
                   date, grid_start, row_date, row, cell_date, col, last_cell,
                   files>>

Next ==
    \/ SetLocale
    \/ ParseDate
    \/ ResolveArgs
    \/ GenCalendarBegin
    \/ NormalizeStep
    \/ DrawGridBegin
    \/ DrawRowBegin
    \/ DrawCell
    \/ DrawRowEnd
    \/ Finish

(***************************************************************************)
(* The command lines and wall clocks the model starts from                 *)
(***************************************************************************)
MaxPad == 1          \* spaces typed before and after the date
MaxTitleExtra == 1   \* title lengths run up to MAX_TITLE_SIZE + MaxTitleExtra
MaxShallowYears == 2 \* the small --life-expectancy values tried
MaxGridDates == 36   \* the birth dates of GridInputs are 0..MaxGridDates

DigitChars == <<"0", "1", "2", "3", "4", "5", "6", "7", "8", "9">>
DigitChar(k) == DigitChars[k + 1]

\* a day or month as the user types it, with or without the leading zero
fmt2(n, zero) ==
    IF n >= 10 THEN <<DigitChar(n \div 10), DigitChar(n % 10)>>
    ELSE IF zero THEN <<"0", DigitChar(n)>> ELSE <<DigitChar(n)>>

fmt4(y) ==
    <<DigitChar(y \div 1000), DigitChar((y \div 100) % 10),
      DigitChar((y \div 10) % 10), DigitChar(y % 10)>>

\* the date <<d, m, y>> typed as d<sep>m<sep>y
date_text(dmy, sep, zero) ==
    fmt2(dmy[1], zero) \o <<sep>> \o fmt2(dmy[2], zero) \o <<sep>>
        \o fmt4(dmy[3])

spaces(n) == [i \in 1..n |-> " "]

padded(lead, s, trail) == spaces(lead) \o s \o spaces(trail)

title_of_len(n) == [i \in 1..n |-> "x"]

Titles ==
    {DEFAULT_TITLE}
        \cup {title_of_len(n) :
                n \in (MAX_TITLE_SIZE - 1)..(MAX_TITLE_SIZE + MaxTitleExtra)}

Filenames == {DOC_NAME, <<"o", "u", "t", ".", "t", "x", "t">>}

Locales == {"it_IT", "xx_XX"}

\* a wall clock after every date drawn, and one inside the first rows
Today == ymd2ord(2026, 11, 4)
EarlyToday == ymd2ord(1991, 1, 2)

CliDates == {<<15, 3, 1990>>, <<31, 12, 2006>>, <<1, 3, 2016>>}

CliTexts ==
    {padded(l, date_text(d, sep, z), t) :
        l \in 0..MaxPad, t \in 0..MaxPad, d \in CliDates, sep \in {"/", "-"},
        z \in BOOLEAN}
        \cup {<<"1", "5", ".", "0", "3", ".", "1", "9", "9", "0">>,
              <<"3", "1", "/", "0", "2", "/", "2", "0", "1", "5">>,
              <<"0", "1", "/", "0", "1", "/", "0", "0", "0", "0">>}

DefaultArgs ==
    [date |-> date_text(<<15, 3, 1990>>, "/", TRUE), filename |-> DOC_NAME,
     stdout |-> FALSE, title |-> DEFAULT_TITLE, years |-> DEFAULT_YEARS,
     locale |-> "it_IT", fill_lived |-> FALSE]

\* every combination of the options, on short calendars
ShallowInputs ==
    {[args |-> [date |-> d, filename |-> f, stdout |-> s, title |-> t,
                years |-> y, locale |-> l, fill_lived |-> fl],
      today |-> td] :
        d \in CliTexts, f \in Filenames, s \in BOOLEAN, t \in Titles,
        y \in 0..MaxShallowYears, l \in Locales, fl \in BOOLEAN,
        td \in {Today, EarlyToday}}

\* the default command line with the long calendars
DeepInputs ==
    {[args |-> [DefaultArgs EXCEPT !.years = y, !.stdout = (y = MAX_YEARS)],
      today |-> Today] :
        y \in {DEFAULT_YEARS, MAX_YEARS, MAX_YEARS + 1, 200}}

CliInputs ==
    {i \in ShallowInputs :
        /\ i.args.fill_lived \/ i.today = Today
        /\ i.args.filename = DOC_NAME \/ i.args.title = DEFAULT_TITLE}
        \cup DeepInputs

\* birth dates 53 days apart from 1 January 2010, and dates whose Monday is
\* next to 29 February or to 1 January
GridDates ==
    {LET x == ord2ymd(ymd2ord(2010, 1, 1) + 53 * k)
     IN  <<x.day, x.month, x.year>> : k \in 0..MaxGridDates}
        \cup {<<29, 2, 2000>>, <<1, 1, 2001>>, <<31, 12, 2012>>,
              <<1, 3, 2004>>}

\* command lines on which each stage of main fails
EdgeInputs ==
    {[args |-> a, today |-> Today] :
        a \in {[DefaultArgs EXCEPT !.locale = "xx_XX"],
               [DefaultArgs EXCEPT !.date = <<"x">>],
               [DefaultArgs EXCEPT
                    !.title = title_of_len(MAX_TITLE_SIZE + 1)],
               [DefaultArgs EXCEPT
                    !.date = date_text(<<29, 2, 2016>>, "-", TRUE)],
               [DefaultArgs EXCEPT
                    !.date = date_text(<<1, 1, 9998>>, "/", TRUE),
                    !.years = 2]}}

GridInputs ==
    {[args |-> [DefaultArgs EXCEPT !.date = date_text(d, "/", TRUE),
                                   !.years = MAX_YEARS, !.stdout = TRUE],
      today |-> Today] : d \in GridDates}
        \cup EdgeInputs

\* the state after parser.parse_args()
Start(i) ==
    /\ args = i.args
    /\ today = i.today
    /\ pc = "main"
    /\ exc = "none"
    /\ exc_from = "none"
    /\ start_date = 0
    /\ doc_name = <<>>
    /\ years = 0
    /\ date = 0
    /\ grid_start = 0
    /\ row_date = 0
    /\ row = 0
    /\ cell_date = 0
    /\ col = 0
    /\ canvas = BlankCanvas
    /\ last_cell = NoCell
    /\ stdout = <<>>
    /\ files = {}

Init == \E i \in CliInputs : Start(i)

InitGrid == \E i \in GridInputs : Start(i)

Spec == Init /\ [][Next]_vars

SpecGrid == InitGrid /\ [][Next]_vars

(***************************************************************************)
(* Notions the properties are stated with                                  *)
(***************************************************************************)
Colours == {LIVED_COLOUR, BIRTHDAY_COLOUR, NEWYEAR_COLOUR, WHITE}

\* ordinal 1, 1 January of year 1, is a Monday
IsMonday(n) == n % 7 = 1

\* the week [d, d + 7 days) contains the day month/day of the year of d or
\* of the year after it
week_contains(d, month, day) ==
    \E y \in {ord2ymd(d).year, ord2ymd(d).year + 1} :
        /\ datetime_ok(y, month, day)
        /\ d <= ymd2ord(y, month, day)
        /\ ymd2ord(y, month, day) < d + 7

\* the birth date as typed, and the Monday the grid starts on
birth == ord2ymd(start_date)
anchor == ord2ymd(date)

Drawn == last_cell /= NoCell

\* gen_calendar has been called and has passed or failed its title check
GenCalled == years >= 1 /\ pc /= "gen"

PdfWritten == \E k \in 1..Len(stdout) : stdout[k] = "pdf_bytes"

(***************************************************************************)
(* C1: a box that is not LIVED is a BIRTHDAY box exactly when its week     *)
(* contains the anniversary of the month and day of the birth date as      *)
(* typed, not of the Monday the grid was moved back to.                    *)
(***************************************************************************)
C1_BirthdayIffBirthDateAnniversary ==
    (Drawn /\ last_cell.fill /= LIVED_COLOUR)
        => ((last_cell.fill = BIRTHDAY_COLOUR)
                <=> week_contains(last_cell.date, birth.month, birth.day))

(***************************************************************************)
(* C2: without --stdout the document goes to the file named by --filename  *)
(* with the extension .pdf and nothing goes to standard output; with       *)
(* --stdout it goes to standard output and no file is written.             *)
(***************************************************************************)
C2_OutputFollowsStdoutFlag ==
    canvas.finished
        => IF args.stdout
           THEN stdout = <<"pdf_bytes">> /\ files = {}
           ELSE stdout = <<>>
                /\ files = {pdf_name(splitext_root(args.filename))}

(***************************************************************************)
(* C3: for every birth date that parses, the classifier never raises and   *)
(* every box drawn has one of the four fills.                              *)
(***************************************************************************)
C3_ClassifierNeverRaises ==
    /\ exc_from \notin {"is_current_week", "draw_row", "draw_grid"}
    /\ Drawn => last_cell.fill \in Colours

(***************************************************************************)
(* C4: first match wins in the order LIVED, BIRTHDAY, NEW_YEAR, DEFAULT:   *)
(* with fill_lived every box before the Monday of today's week is LIVED    *)
(* and no other box is; without fill_lived no box is LIVED; a box that is  *)
(* not LIVED and whose week holds both the birthday anniversary and        *)
(* 1 January is BIRTHDAY.                                                  *)
(***************************************************************************)
C4_LivedFirst ==
    Drawn =>
        ((last_cell.fill = LIVED_COLOUR)
            <=> (args.fill_lived /\ last_cell.date < last_monday(today)))

C4_FirstMatchWins ==
    /\ C4_LivedFirst
    /\ (/\ Drawn
        /\ last_cell.fill /= LIVED_COLOUR
        /\ week_contains(last_cell.date, birth.month, birth.day)
        /\ week_contains(last_cell.date, 1, 1))
            => last_cell.fill = BIRTHDAY_COLOUR

(***************************************************************************)
(* C5: no exception escapes main: every failure, the locale's included,    *)
(* ends in one printed error line.                                         *)
(***************************************************************************)
C5_NoExceptionEscapes ==
    /\ pc /= "crashed"
    /\ exc /= "none" => (pc = "returned" /\ stdout = <<"error_line">>)

(***************************************************************************)
(* C6: the grid anchor is the latest Monday on or before the birth date,   *)
(* reached in at most six steps back, and the box at (row, column) has the *)
(* date anchor + (52 * row + column) weeks, a Monday.                      *)
(***************************************************************************)
C6_GridOnMondays ==
    /\ pc = "normalize"
        => /\ start_date - date \in 0..6
           /\ \A k \in (date + 1)..start_date : ~IsMonday(k)
    /\ pc \in {"grid", "row"}
        => /\ IsMonday(date)
           /\ start_date - date \in 0..6
           /\ grid_start = date
    /\ pc = "grid" => row_date = date + 7 * 52 * row
    /\ pc = "row" => cell_date = date + 7 * (52 * row + col)
    /\ Drawn
        => /\ last_cell.date = date + 7 * (52 * last_cell.row + last_cell.col)
           /\ IsMonday(last_cell.date)

C6_Witness ==
    /\ start_date - date = 6
    /\ last_cell.row = 1
    /\ last_cell.col = 0

C8_TitleBoundary ==
    /\ Len(args.title) <= 30
        => /\ exc_from /= "gen_calendar"
           /\ GenCalled => canvas.created
    /\ Len(args.title) >= 31
        => /\ canvas = BlankCanvas
           /\ ~PdfWritten
           /\ files = {}
           /\ GenCalled => (exc = "ValueError" /\ exc_from = "gen_calendar")

C8_Witness ==
    Len(args.title) = 31 /\ exc_from = "gen_calendar" /\ pc = "returned"

(***************************************************************************)
(* C9: parse_date parses the text with the surrounding whitespace removed: *)
(* a padded date parses to the date of the unpadded text, and a text that  *)
(* matches neither pattern once stripped fails.                            *)
(***************************************************************************)
C9_ParsesStrippedText ==
    pc \notin {"main", "parse", "crashed"}
        => LET r == parse_date(strip(args.date))
           IN  IF r.ok
               THEN exc_from /= "parse_date" /\ start_date = r.value
               ELSE exc_from = "parse_date"

(***************************************************************************)
(* C10: with fill_lived off and a grid Monday that is not 29 February,     *)
(* every row drawn to its end holds exactly one BIRTHDAY box, no row ever  *)
(* holds two, and in row 0 that box is column 0.                           *)
(***************************************************************************)
RowComplete ==
    \/ pc = "row" /\ col = NUM_COLUMNS
    \/ pc = "grid" /\ canvas.rows > 0
    \/ canvas.finished

C10_OneBirthdayPerRow ==
    (~args.fill_lived /\ ~(anchor.month = 2 /\ anchor.day = 29))
        => /\ canvas.row_birthdays <= 1
           /\ RowComplete => canvas.row_birthdays = 1
           /\ (Drawn /\ last_cell.row = 0)
                => ((last_cell.fill = BIRTHDAY_COLOUR) <=> last_cell.col = 0)

C10_Witness ==
    /\ ~args.fill_lived
    /\ last_cell.row = MAX_YEARS - 1
    /\ last_cell.col >= 10
    /\ last_cell.fill = BIRTHDAY_COLOUR

====
